---- MODULE Spec2Model ----
(***************************************************************************)
(* Cash-flow forecasting engine of Achievr: the recurrence calculator      *)
(* (calculateNextOccurrence), the occurrence expander (generateOccurrences),*)
(* the forecast aggregator (generateCashFlowForecast) and the scenario      *)
(* overlay of the forecasting page (applyScenario /                         *)
(* generateScenarioForecast).                                               *)
(*                                                                          *)
(* Time is measured in ticks; a day has TicksPerDay ticks.  A JavaScript    *)
(* Date is its tick count since 1970-01-01 (UTC), or NaD for an Invalid     *)
(* Date.  A JavaScript number is an integer, or NaN.                        *)
(***************************************************************************)
EXTENDS Integers, Sequences, FiniteSets, TLC

VARIABLES
    nxt,      \* the running call of calculateNextOccurrence (its locals)
    occ,      \* the running call of generateOccurrences (its locals)
    horizon,  \* the horizon being normalized by generateCashFlowForecast
    call,     \* the arguments of the last generateCashFlowForecast call
    ledger,   \* the ledger that call returned
    page      \* the state of the forecasting page

vars == <<nxt, occ, horizon, call, ledger, page>>

----------------------------------------------------------------------------
(* Values *)

TicksPerDay == 4

\* Invalid Date: new Date(s) for a string that does not parse.
NaD == -1
\* A record whose date field is missing (undefined or "").
NoDate == -2
\* The number NaN.
NaN == -999999
\* A value isNaN() throws on (a Symbol, a BigInt): a malformed argument.
NotANumber == -999998

Min(a, b) == IF a <= b THEN a ELSE b
Max(a, b) == IF a >= b THEN a ELSE b
Abs(a) == IF a < 0 THEN -a ELSE a

isNaN(x) == x = NaN

\* The sequence f, written out element by element.
Tuple(f) == SubSeq(f, 1, Len(f))

----------------------------------------------------------------------------
(* Calendar arithmetic of the JavaScript Date object (UTC) *)

\* Day number (days since 1970-01-01) of the civil date y-m-d, m in 1..12.
DaysFromEra(era, yoe, doy) ==
    era * 146097 + (yoe * 365 + yoe \div 4 - yoe \div 100 + doy) - 719468

DaysFromShifted(yy, mp, d) ==
    DaysFromEra(yy \div 400, yy % 400, (153 * mp + 2) \div 5 + d - 1)

DaysFromCivil(y, m, d) ==
    DaysFromShifted(IF m <= 2 THEN y - 1 ELSE y, IF m > 2 THEN m - 3 ELSE m + 9, d)

\* Civil date [y, m, d] of a day number.
CivilFromMonth(era, yoe, doy, mp) ==
    [y |-> yoe + era * 400 + (IF mp >= 10 THEN 1 ELSE 0),
     m |-> IF mp < 10 THEN mp + 3 ELSE mp - 9,
     d |-> doy - (153 * mp + 2) \div 5 + 1]

CivilFromDayOfYear(era, yoe, doy) == CivilFromMonth(era, yoe, doy, (5 * doy + 2) \div 153)

CivilFromYearOfEra(era, doe, yoe) ==
    CivilFromDayOfYear(era, yoe, doe - (365 * yoe + yoe \div 4 - yoe \div 100))

CivilFromDayOfEra(era, doe) ==
    CivilFromYearOfEra(era, doe,
        (doe - doe \div 1460 + doe \div 36524 - doe \div 146096) \div 365)

CivilFromDays(z) ==
    CivilFromDayOfEra((z + 719468) \div 146097, (z + 719468) % 146097)

DayOf(t) == t \div TicksPerDay
TimeOfDay(t) == t % TicksPerDay

\* The tick of y-m-d at time of day s.
DateAt(y, m, d, s) == DaysFromCivil(y, m, d) * TicksPerDay + s

\* date.setDate(date.getDate() + n)
AddDays(t, n) == t + n * TicksPerDay

\* The civil date c at time of day s with its month moved to the 0-based
\* month count `total` of c's year.
SetMonth(c, total, s) ==
    (DaysFromCivil(c.y + total \div 12, (total % 12) + 1, 1) + (c.d - 1)) * TicksPerDay + s

AddMonthsCivil(c, n, s) == SetMonth(c, (c.m - 1) + n, s)

\* date.setMonth(date.getMonth() + n): the day of month is kept, and a day
\* past the end of the target month runs over into the following month.
AddMonths(t, n) == AddMonthsCivil(CivilFromDays(DayOf(t)), n, TimeOfDay(t))

AddYearsCivil(c, n, s) ==
    (DaysFromCivil(c.y + n, c.m, 1) + (c.d - 1)) * TicksPerDay + s

\* date.setFullYear(date.getFullYear() + n)
AddYears(t, n) == AddYearsCivil(CivilFromDays(DayOf(t)), n, TimeOfDay(t))

\* new Date(s).getTime() of a date field
ParseDate(s) == IF s = NoDate \/ s = NaD THEN NaD ELSE s

\* Comparison of two Dates: false as soon as one is an Invalid Date.
DateLT(a, b) == a # NaD /\ b # NaD /\ a < b
DateLE(a, b) == a # NaD /\ b # NaD /\ a <= b
DateGT(a, b) == DateLT(b, a)
DateGE(a, b) == DateLE(b, a)

----------------------------------------------------------------------------
(* Frequency strings *)

\* A string is the sequence of its characters.
Lower(c) ==
    CASE c = "B" -> "b"
      [] c = "W" -> "w"
      [] c = "M" -> "m"
      [] c = "D" -> "d"
      [] c = "A" -> "a"
      [] c = "Q" -> "q"
      [] c = "S" -> "s"
      [] c = "O" -> "o"
      [] OTHER   -> c

toLowerCase(s) == [i \in 1..Len(s) |-> Lower(s[i])]

RECURSIVE trimStart(_)
trimStart(s) == IF s # <<>> /\ Head(s) = " " THEN trimStart(Tail(s)) ELSE s

RECURSIVE trimEnd(_)
trimEnd(s) ==
    IF s # <<>> /\ s[Len(s)] = " " THEN trimEnd(SubSeq(s, 1, Len(s) - 1)) ELSE s

trim(s) == trimEnd(trimStart(s))

Str_once         == <<"o","n","c","e">>
Str_daily        == <<"d","a","i","l","y">>
Str_weekly       == <<"w","e","e","k","l","y">>
Str_biweekly     == <<"b","i","w","e","e","k","l","y">>
Str_bi_weekly    == <<"b","i","-","w","e","e","k","l","y">>
Str_bi_space     == <<"b","i"," ","w","e","e","k","l","y">>
Str_monthly      == <<"m","o","n","t","h","l","y">>
Str_quarterly    == <<"q","u","a","r","t","e","r","l","y">>
Str_semiannually == <<"s","e","m","i","a","n","n","u","a","l","l","y">>
Str_annually     == <<"a","n","n","u","a","l","l","y">>
Str_Bi_Weekly    == <<"B","i","-","W","e","e","k","l","y">>
Str_fortnightly  == <<"f","o","r","t","n","i","g","h","t","l","y">>
Str_Once         == <<"O","n","c","e">>
Str_Weekly_pad   == <<" ","W","e","e","k","l","y"," ">>
\* An absent frequency (undefined): falsy.
NoFrequency      == <<>>

\* 'bi-weekly' and 'bi weekly' are spellings of 'biweekly'.
Biweekly(n) == IF n = Str_bi_weekly \/ n = Str_bi_space THEN Str_biweekly ELSE n

\* frequency.toLowerCase().trim(), then the biweekly spellings
NormalizeFrequency(frequency) == Biweekly(trim(toLowerCase(frequency)))

Recognized ==
    {Str_daily, Str_weekly, Str_biweekly, Str_monthly, Str_quarterly,
     Str_semiannually, Str_annually}

\* The months of a monthly, quarterly or semiannual period.
PeriodMonths(nf) ==
    CASE nf = Str_monthly      -> 1
      [] nf = Str_quarterly    -> 3
      [] nf = Str_semiannually -> 6

\* The switch on the normalized frequency: the date moved by `k` periods.
\* Only called with a recognized frequency.
Increment(t, nf, k) ==
    CASE nf = Str_daily    -> AddDays(t, k)
      [] nf = Str_weekly   -> AddDays(t, 7 * k)
      [] nf = Str_biweekly -> AddDays(t, 14 * k)
      [] nf \in {Str_monthly, Str_quarterly, Str_semiannually}
                           -> AddMonths(t, PeriodMonths(nf) * k)
      [] nf = Str_annually -> AddYears(t, k)

----------------------------------------------------------------------------
(* calculateNextOccurrence *)

maxIterations == 100

\* The fast-forward loop: repeat the increment while the date is not after
\* now, at most maxIterations times.
RECURSIVE FastForward(_, _, _, _)
FastForward(nextDate, nf, now, iterations) ==
    IF nextDate <= now /\ iterations < maxIterations
    THEN FastForward(Increment(nextDate, nf, 1), nf, now, iterations + 1)
    ELSE nextDate

\* After the loop: a date still not after now becomes tomorrow.
NextChecked_Unchecked(nextDate, now) == nextDate

NextChecked(nextDate, now) == IF nextDate <= now THEN AddDays(now, 1) ELSE nextDate

\* The date after its first increment, then the fast-forward loop.
NextForwarded(nextDate, nf, now) ==
    NextChecked(IF nextDate <= now THEN FastForward(nextDate, nf, now, 0) ELSE nextDate,
                now)

\* The first increment: a date more than two years back restarts one period
\* before now.
NextFirst(date, nf, twoYearsAgo, now) ==
    Increment(IF date < twoYearsAgo THEN Increment(now, nf, -1) ELSE date, nf, 1)

\* The date not after now, with its normalized frequency.
NextNormalized(date, nf, twoYearsAgo, now) ==
    IF date = NaD THEN now
    ELSE IF nf \notin Recognized THEN (IF date < twoYearsAgo THEN now ELSE date)
    ELSE NextForwarded(NextFirst(date, nf, twoYearsAgo, now), nf, now)

NextFromDate(date, frequency, now) ==
    IF DateGT(date, now) THEN date
    ELSE IF frequency = NoFrequency
    THEN AddDays(now, 1)                \* toLowerCase of undefined throws: catch
    ELSE NextNormalized(date, NormalizeFrequency(frequency), AddYears(now, -2), now)

\* calculateNextOccurrence(startDate, frequency), the clock reading `now`.
calculateNextOccurrence(startDate, frequency, now) ==
    NextFromDate(ParseDate(startDate), frequency, now)

----------------------------------------------------------------------------
(* Records and ledger items *)

\* An income, bill, expense or balance adjustment as read from storage.
\* `null` is a null entry of a collection; `date` is the field the code
\* reads the date from (date / dueDate).
Record(id, date, amount, frequency, isRecurring, isPaid) ==
    [null |-> FALSE, id |-> id, date |-> date, amount |-> amount,
     frequency |-> frequency, isRecurring |-> isRecurring, isPaid |-> isPaid]

\* The id of a record whose id is missing.
NoId == ""

NullRecord ==
    [null |-> TRUE, id |-> NoId, date |-> NoDate, amount |-> 0,
     frequency |-> NoFrequency, isRecurring |-> FALSE, isPaid |-> FALSE]

\* A ForecastItem.
Item(itemId, date, amount, category, type) ==
    [itemId |-> itemId, date |-> date, amount |-> amount,
     category |-> category, type |-> type, runningBalance |-> 0]

\* type: item.amount >= 0 ? 'income' : 'expense'
TypeOfAmount(amount) == IF ~isNaN(amount) /\ amount >= 0 THEN "income" ELSE "expense"

----------------------------------------------------------------------------
(* generateOccurrences *)

OCCURRENCE_CEILING == 365

\* const MAX_OCCURRENCES = Math.min(days, 365)
MAX_OCCURRENCES(days) == Min(days, OCCURRENCE_CEILING)

OccItem(item, date) ==
    Item(item.id, date, item.amount, "unknown", TypeOfAmount(item.amount))

\* The locals of generateOccurrences when its walk loop is entered.
OccStartAt(anchor, item, now) ==
    [currentDate |-> IF DateLT(anchor, now)
                     THEN calculateNextOccurrence(
                              now, NormalizeFrequency(item.frequency), now)
                     ELSE anchor,
     count       |-> 0,
     occurrences |-> <<>>]

OccStart(item, days, now) == OccStartAt(ParseDate(item.date), item, now)

\* The condition of the walk loop.
OccContinue(w, days, now) ==
    /\ DateLE(w.currentDate, AddDays(now, days))
    /\ w.count < MAX_OCCURRENCES(days)

\* The step the walk takes from currentDate: the next occurrence, moved on
\* by the nominal period (14, 7 or 1 days) when it equals currentDate.
OccAdvance_NoForcedStep(currentDate, nf, now) ==
    calculateNextOccurrence(currentDate, nf, now)

OccForcedStep(nextDate, currentDate, nf) ==
    IF nextDate = currentDate
    THEN AddDays(nextDate, IF nf = Str_biweekly THEN 14
                           ELSE IF nf = Str_weekly THEN 7 ELSE 1)
    ELSE nextDate

OccAdvance(currentDate, nf, now) ==
    OccForcedStep(calculateNextOccurrence(currentDate, nf, now), currentDate, nf)

\* One iteration of the walk loop.
OccBody(w, item, now) ==
    [currentDate |-> OccAdvance(w.currentDate, NormalizeFrequency(item.frequency), now),
     count       |-> w.count + 1,
     occurrences |-> Append(w.occurrences, OccItem(item, w.currentDate))]

\* The walk loop, as at most k further iterations from w; the loop itself
\* is OccIterations(w, ..., MAX_OCCURRENCES(days)), since count < MAX_OCCURRENCES
\* bounds it.  (Halving k keeps the evaluation shallow.)
RECURSIVE OccIterations(_, _, _, _, _)
OccIterations(w, item, days, now, k) ==
    IF k <= 0 \/ ~OccContinue(w, days, now) THEN w
    ELSE IF k = 1 THEN OccBody(w, item, now)
    ELSE OccIterations(OccIterations(w, item, days, now, k \div 2),
                       item, days, now, k - k \div 2)

OccWalk(w, item, days, now) ==
    OccIterations(w, item, days, now, MAX_OCCURRENCES(days))

\* After the loop: an empty walk gets one occurrence at the forecast start.
OccFinish_NoFallback(w, item, days, now) == w.occurrences

OccFinish(w, item, days, now) ==
    IF w.occurrences = <<>> /\ now <= AddDays(now, days)
    THEN <<OccItem(item, now)>>
    ELSE w.occurrences

\* Non-recurring: !item.frequency || item.frequency === 'once'
OccIsSingle(item) == item.frequency = NoFrequency \/ item.frequency = Str_once

generateOccurrences(item, days, now) ==
    IF item.null THEN <<>>                    \* TypeError, caught: []
    ELSE IF OccIsSingle(item) THEN <<OccItem(item, item.date)>>
    ELSE OccFinish(OccWalk(OccStart(item, days, now), item, days, now),
                   item, days, now)

----------------------------------------------------------------------------
(* generateCashFlowForecast *)

\* An absent argument (undefined): the parameter's default applies.
Undefined == -999997

\* A collection argument: an array of records, or something that is no array.
Array(items) == [isArray |-> TRUE, items |-> items]
NonArray == [isArray |-> FALSE, items |-> <<>>]

\* const normalizedBalance = isNaN(currentBalance) ? 0 : currentBalance
normalizedBalance(currentBalance) ==
    IF isNaN(currentBalance) \/ currentBalance = Undefined THEN 0 ELSE currentBalance

MAX_FORECAST_DAYS == 365

DEFAULT_DAYS == 90

\* const normalizedDays = (!days || isNaN(days) || days <= 0) ? 90 : Math.min(days, 365)
normalizedDays(days) ==
    IF days = Undefined \/ days = 0 \/ isNaN(days) \/ days <= 0
    THEN DEFAULT_DAYS
    ELSE Min(days, MAX_FORECAST_DAYS)

\* The same constant in the version of generateCashFlowForecast in part_000:
\* (!days || isNaN(days) || days <= 0 || days > 365) ? 90 : days
normalizedDays_part_000(days) ==
    IF days = Undefined \/ days = 0 \/ isNaN(days) \/ days <= 0 \/ days > MAX_FORECAST_DAYS
    THEN DEFAULT_DAYS
    ELSE days

\* const MAX_ITEMS = Math.min(normalizedDays * 2, 200)
MAX_ITEMS(nd) == Min(nd * 2, 200)

MAX_ADJUSTMENTS == 50

\* const MAX_FORECAST_ITEMS = Math.min(normalizedDays * 10, 2000)
MAX_FORECAST_ITEMS(nd) == Min(nd * 10, 2000)

\* Array.isArray(c) ? c.slice(0, n) : []
ValidSlice(c, n) == IF c.isArray THEN SubSeq(c.items, 1, Min(Len(c.items), n)) ELSE <<>>

\* The forecast as initialized: the balance item, then the mid-point and
\* end-point markers.
InitialForecast(balance, nd, now) ==
    <<[Item("initial-balance", now, balance, "balance", "balance")
          EXCEPT !.runningBalance = balance]>>
    \o (IF nd > 1 /\ nd > 30
        THEN <<[Item("mid-point-marker", AddDays(now, nd \div 2), 0, "marker", "marker")
                   EXCEPT !.runningBalance = balance]>>
        ELSE <<>>)
    \o (IF nd > 1
        THEN <<[Item("end-point-marker", AddDays(now, nd), 0, "marker", "marker")
                   EXCEPT !.runningBalance = balance]>>
        ELSE <<>>)

\* safelyAddItems: `results` holds, for each item of the collection, what
\* processItem returns for it as a sequence (null or a caught exception is
\* the empty sequence, a single item a sequence of one).
RECURSIVE safelyAddLoop(_, _, _, _, _)
safelyAddLoop(forecast, results, i, processed, maxItems) ==
    IF i > Len(results) THEN forecast
    ELSE
    LET result == results[i]
        canAdd == Min(Len(result), maxItems - Len(forecast))
        added  == IF canAdd > 0 THEN forecast \o SubSeq(result, 1, canAdd) ELSE forecast
        done   == IF canAdd > 0 THEN processed + canAdd ELSE processed
    IN  IF Len(added) >= maxItems THEN added
        ELSE IF 2 * done > maxItems THEN added
        ELSE safelyAddLoop(added, results, i + 1, done, maxItems)

safelyAddItems(forecast, results, maxItems) ==
    IF Len(forecast) >= maxItems THEN forecast
    ELSE safelyAddLoop(forecast, results, 1, 0, maxItems)

\* ... || 'once'
OrOnce(n) == IF n = <<>> THEN Str_once ELSE n

\* income.frequency?.toLowerCase().trim() || 'once', then the biweekly spellings
ItemFrequency(frequency) ==
    Biweekly(OrOnce(IF frequency = NoFrequency THEN <<>>
                    ELSE trim(toLowerCase(frequency))))

isShortForecast(nd) == nd <= 14

RECENT_DAYS == 7

\* The date filter of one-time items: inside the forecast period, or in the
\* last 7 days.
InForecastWindow(date, now, nd) ==
    \/ DateGE(date, now) /\ DateLE(date, AddDays(now, nd))
    \/ DateLT(date, now) /\ Abs(now - date) < RECENT_DAYS * TicksPerDay

\* The recurring branch for long forecasts: generateOccurrences on a copy of
\* the record that starts at max(now, date).  `now` is the clock read by the
\* callback, `later` the clock read inside generateOccurrences.
ExpandFrom(date, rec, amount, nf, nd, now, later) ==
    IF date = NaD THEN <<>>             \* toISOString of an Invalid Date throws
    ELSE generateOccurrences(
            [rec EXCEPT !.frequency = nf, !.amount = amount, !.date = Max(now, date)],
            nd, later)

ExpandRecurring(rec, amount, nf, nd, now, later) ==
    ExpandFrom(ParseDate(rec.date), rec, amount, nf, nd, now, later)

\* The recurring branch for short forecasts: the next occurrence only, when
\* it falls inside the forecast period.
NextOnlyEmit_Always(nextDate, rec, amount, nd, now, category, type) ==
    <<Item(rec.id, nextDate, amount, category, type)>>

NextOnlyEmit(nextDate, rec, amount, nd, now, category, type) ==
    IF DateLE(nextDate, AddDays(now, nd))
    THEN <<Item(rec.id, nextDate, amount, category, type)>>
    ELSE <<>>

NextOnlyFrom(baseDate, rec, amount, nf, nd, now, later, category, type) ==
    IF baseDate = NaD THEN <<>>         \* toISOString of an Invalid Date throws
    ELSE NextOnlyEmit(calculateNextOccurrence(baseDate, nf, later),
                      rec, amount, nd, now, category, type)

NextOnly(rec, amount, nf, nd, now, later, category, type) ==
    NextOnlyFrom(IF DateLT(ParseDate(rec.date), now) THEN now ELSE ParseDate(rec.date),
                 rec, amount, nf, nd, now, later, category, type)

\* The callback that processes one income.
IncomeItems(income, nf, nd, now, later) ==
    IF income.isRecurring /\ nf # Str_once /\ ~isShortForecast(nd)
    THEN ExpandRecurring(income, income.amount, nf, nd, now, later)
    ELSE IF income.isRecurring /\ nf # Str_once
    THEN NextOnly(income, income.amount, nf, nd, now, later, "Income", "income")
    ELSE IF InForecastWindow(ParseDate(income.date), now, nd)
    THEN <<Item(income.id, income.date, income.amount, "Income", "income")>>
    ELSE <<>>

processIncome(income, nd, now, later) ==
    IF income.null \/ income.id = NoId \/ income.date = NoDate \/ isNaN(income.amount)
    THEN <<>>
    ELSE IF income.amount = 0 THEN <<>>
    ELSE IncomeItems(income, ItemFrequency(income.frequency), nd, now, later)

\* occurrences.map(occurrence => ({...occurrence, type: 'bill'}))
AsBills(occs) == Tuple([i \in 1..Len(occs) |-> [occs[i] EXCEPT !.type = "bill"]])

\* The callback that processes one bill.
BillItems(bill, nf, amount, nd, now, later) ==
    IF bill.isRecurring /\ nf # Str_once /\ ~isShortForecast(nd)
    THEN AsBills(ExpandRecurring(bill, amount, nf, nd, now, later))
    ELSE IF bill.isRecurring /\ nf # Str_once
    THEN NextOnly(bill, amount, nf, nd, now, later, "Expense", "bill")
    ELSE IF InForecastWindow(ParseDate(bill.date), now, nd)
    THEN <<Item(bill.id, bill.date, amount, "Expense", "bill")>>
    ELSE <<>>

\* The callback past its isPaid check.
processUnpaidBill(bill, nd, now, later) ==
    IF bill.id = NoId \/ bill.date = NoDate \/ isNaN(bill.amount) THEN <<>>
    ELSE BillItems(bill, ItemFrequency(bill.frequency), -Abs(bill.amount),
                   nd, now, later)

processBill_IgnoringPaid(bill, nd, now, later) ==
    IF bill.null THEN <<>>
    ELSE processUnpaidBill(bill, nd, now, later)

processBill(bill, nd, now, later) ==
    IF bill.null THEN <<>>               \* TypeError, caught by safelyAddItems
    ELSE IF bill.isPaid THEN <<>>
    ELSE processUnpaidBill(bill, nd, now, later)

\* The callback that processes one expense.
processExpense(expense, nd, now, later) ==
    IF expense.null THEN <<>>            \* TypeError, caught by safelyAddItems
    ELSE IF expense.id = NoId \/ expense.date = NoDate \/ isNaN(expense.amount)
    THEN <<>>
    ELSE IF InForecastWindow(ParseDate(expense.date), now, nd)
    THEN <<Item(expense.id, expense.date, -Abs(expense.amount), "Expense", "expense")>>
    ELSE <<>>

\* The callback that processes one balance adjustment.
processAdjustment(adjustment, nd, now, later) ==
    IF adjustment.null THEN <<>>         \* TypeError, caught by safelyAddItems
    ELSE IF adjustment.id = NoId \/ adjustment.date = NoDate \/ isNaN(adjustment.amount)
    THEN <<>>
    ELSE <<Item(adjustment.id, adjustment.date, adjustment.amount,
                "adjustment", "adjustment")>>

\* What the callback returns for each record of a collection.
IncomeResults(incomes, nd, now, later) ==
    Tuple([i \in 1..Len(incomes) |-> processIncome(incomes[i], nd, now, later)])

BillResults(bills, nd, now, later) ==
    Tuple([i \in 1..Len(bills) |-> processBill(bills[i], nd, now, later)])

ExpenseResults(expenses, nd, now, later) ==
    Tuple([i \in 1..Len(expenses) |-> processExpense(expenses[i], nd, now, later)])

AdjustmentResults(adjustments, nd, now, later) ==
    Tuple([i \in 1..Len(adjustments) |->
            processAdjustment(adjustments[i], nd, now, later)])

\* The working set before it is sorted: the initial forecast and what the
\* four safelyAddItems calls add to it.  `now` is the clock read by the
\* callbacks, `later` the clock read inside generateOccurrences and
\* calculateNextOccurrence.
Collected(a, nd, now, later, maxItems, maxForecast) ==
    safelyAddItems(
        safelyAddItems(
            safelyAddItems(
                safelyAddItems(
                    InitialForecast(normalizedBalance(a.currentBalance), nd, now),
                    IncomeResults(ValidSlice(a.incomes, maxItems), nd, now, later),
                    maxForecast),
                BillResults(ValidSlice(a.bills, maxItems), nd, now, later),
                maxForecast),
            ExpenseResults(ValidSlice(a.expenses, maxItems), nd, now, later),
            maxForecast),
        AdjustmentResults(ValidSlice(a.adjustments, MAX_ADJUSTMENTS), nd, now, later),
        maxForecast)

WorkingSetFor(a, nd) ==
    Collected(a, nd, a.now, a.now + a.lag, MAX_ITEMS(nd), MAX_FORECAST_ITEMS(nd))

WorkingSet(a) == WorkingSetFor(a, normalizedDays(a.days))

\* forecast.sort((a, b) => new Date(a.date).getTime() - new Date(b.date).getTime())
\* when every date parses: the stable sort by date.
SortByDate(items) ==
    LET n    == Len(items)
        key  == Tuple([i \in 1..n |-> items[i].date])
        rank == Tuple([i \in 1..n |->
                    Cardinality({j \in 1..n :
                        key[j] < key[i] \/ (key[j] = key[i] /\ j < i)}) + 1])
        at   == Tuple([r \in 1..n |-> CHOOSE i \in 1..n : rank[i] = r])
    IN  Tuple([r \in 1..n |-> items[at[r]]])

\* The orders the sort may leave the items in.  For an item whose date does
\* not parse the comparator returns NaN, which the sort takes as "equal".
\* With valid dates that differ next to such an item the comparator is no
\* consistent comparison and the order is implementation-defined: any order.
\* When all valid dates are the same, everything compares equal and the
\* stable sort leaves the items as they are.
SortOutcomes(items) ==
    LET valid == {i \in 1..Len(items) : ParseDate(items[i].date) # NaD}
    IN  IF valid = 1..Len(items) THEN {SortByDate(items)}
        ELSE IF \A i, j \in valid : items[i].date = items[j].date THEN {items}
        ELSE {Tuple([i \in 1..Len(items) |-> items[q[i]]]) :
                q \in Permutations(1..Len(items))}

MAX_LEDGER == 365

\* const trimmedForecast = forecast.slice(0, Math.min(forecast.length, 365))
TrimForecast_Untrimmed(forecast) == forecast

TrimForecast(forecast) == SubSeq(forecast, 1, Min(Len(forecast), MAX_LEDGER))

\* The effect of one item on the running balance.
ApplyItem_Ignored(runningBalance, item) == runningBalance

ApplyItem_NoReset(runningBalance, item) ==
    IF ~isNaN(item.amount) THEN runningBalance + item.amount ELSE runningBalance

ApplyItem(runningBalance, item) ==
    IF item.type = "balance" THEN item.amount
    ELSE IF ~isNaN(item.amount) THEN runningBalance + item.amount
    ELSE runningBalance

\* The running-balance pass over items[lo..hi], entered with runningBalance:
\* each item is stamped with the balance after it.  (The range is halved to
\* keep the evaluation shallow; the items are visited in order.)
RECURSIVE BalanceRange(_, _, _, _)
BalanceRange(items, lo, hi, runningBalance) ==
    IF lo > hi THEN <<>>
    ELSE IF lo = hi
    THEN <<[items[lo] EXCEPT !.runningBalance = ApplyItem(runningBalance, items[lo])]>>
    ELSE LET mid   == (lo + hi) \div 2
             left  == BalanceRange(items, lo, mid, runningBalance)
             right == BalanceRange(items, mid + 1, hi, left[Len(left)].runningBalance)
         IN  left \o right

RunningBalancePass(items, runningBalance) ==
    BalanceRange(items, 1, Len(items), runningBalance)

\* The catch block: the minimal one-item ledger.
MinimalForecast_Empty(currentBalance, now) == <<>>

MinimalForecast(currentBalance, now) ==
    <<[Item("initial-balance", now, normalizedBalance(currentBalance), "balance", "balance")
          EXCEPT !.runningBalance = normalizedBalance(currentBalance)]>>

\* The arguments on which the body of generateCashFlowForecast throws:
\* isNaN(days) throws for a value that does not convert to a number.
Throws(a) == a.days = NotANumber

\* The ledgers the try block of generateCashFlowForecast may return.
ForecastBody(a) ==
    {RunningBalancePass(TrimForecast(sorted), normalizedBalance(a.currentBalance)) :
        sorted \in SortOutcomes(WorkingSet(a))}

\* The ledgers generateCashFlowForecast may return for the arguments `a`.
generateCashFlowForecast(a) ==
    IF Throws(a) THEN {MinimalForecast(a.currentBalance, a.now)}
    ELSE ForecastBody(a)

----------------------------------------------------------------------------
(* The clock and the inputs of the model *)

\* The wall clock when a call begins: 2024-01-31 and 2024-03-15, in the
\* course of the day.
Nows == {DateAt(2024, 1, 31, 1), DateAt(2024, 3, 15, 1)}

\* Midnight of the day of t.
Midnight(t) == t - TimeOfDay(t)

Frequencies ==
    {Str_daily, Str_weekly, Str_biweekly, Str_monthly, Str_quarterly,
     Str_semiannually, Str_annually, Str_Bi_Weekly, Str_fortnightly}

IdleNext == [pc |-> "idle"]
IdleOcc  == [pc |-> "idle"]
IdleHorizon == [pc |-> "idle"]
IdleCall == [made |-> FALSE]
IdlePage == [loaded |-> FALSE]

----------------------------------------------------------------------------
(* Specification SpecOcc: one call of generateOccurrences, step by step *)

\* Anchor dates of the expanded item, relative to now.
OccAnchors(now) ==
    {AddDays(now, -1200), AddDays(now, -200), Midnight(now), now,
     AddDays(Midnight(now), 10), AddDays(Midnight(now), 100), NaD}

OccDays == {0, 1, 14, 28, 90, 400}

\* Other spellings of 'once' and 'weekly': mixed case, surrounding blanks.
OccSpellings == {Str_Once, Str_Weekly_pad}

OccItems(now) ==
    {Record("src", d, 500, f, TRUE, FALSE) :
        d \in OccAnchors(now), f \in Frequencies \cup {Str_once, NoFrequency}}
    \cup {Record("src", d, 500, f, TRUE, FALSE) :
            d \in {AddDays(now, -200), AddDays(Midnight(now), 10)}, f \in OccSpellings}

InitOcc ==
    /\ nxt = IdleNext
    /\ occ = IdleOcc
    /\ horizon = IdleHorizon
    /\ call = IdleCall
    /\ ledger = <<>>
    /\ page = IdlePage

\* generateOccurrences is called: lines 191-235.
OccCall ==
    /\ occ.pc = "idle"
    /\ \E now \in Nows : \E item \in OccItems(now) : \E days \in OccDays :
         occ' = IF OccIsSingle(item)
                THEN [pc |-> "done", item |-> item, days |-> days, now |-> now,
                      w |-> [currentDate |-> ParseDate(item.date), count |-> 0,
                             occurrences |-> <<>>],
                      result |-> generateOccurrences(item, days, now)]
                ELSE [pc |-> "loop", item |-> item, days |-> days, now |-> now,
                      w |-> OccStart(item, days, now), result |-> <<>>]
    /\ UNCHANGED <<nxt, horizon, call, ledger, page>>

\* One iteration of the walk loop: lines 237-279.
OccIterate ==
    /\ occ.pc = "loop"
    /\ OccContinue(occ.w, occ.days, occ.now)
    /\ occ' = [occ EXCEPT !.w = OccBody(occ.w, occ.item, occ.now)]
    /\ UNCHANGED <<nxt, horizon, call, ledger, page>>

\* The loop is left and the function returns: lines 281-305.
OccReturn ==
    /\ occ.pc = "loop"
    /\ ~OccContinue(occ.w, occ.days, occ.now)
    /\ occ' = [occ EXCEPT !.pc = "done",
                          !.result = OccFinish(occ.w, occ.item, occ.days, occ.now)]
    /\ UNCHANGED <<nxt, horizon, call, ledger, page>>

NextOcc == OccCall \/ OccIterate \/ OccReturn

SpecOcc == InitOcc /\ [][NextOcc]_vars

\* The step-by-step call returns what the function computes.
OccResultIsFunction ==
    occ.pc = "done" => occ.result = generateOccurrences(occ.item, occ.days, occ.now)

----------------------------------------------------------------------------
(* Claims about generateOccurrences *)

\* A valid recurring source: recognized frequency, valid anchor date,
\* finite amount.
ValidRecurring(item) ==
    /\ ~item.null
    /\ item.id # NoId
    /\ NormalizeFrequency(item.frequency) \in Recognized
    /\ ParseDate(item.date) # NaD
    /\ ~isNaN(item.amount)

\* C4: for a recurring source expanded over a horizon longer than 14 days,
\* consecutive emitted occurrences are exactly one frequency period apart.
C4_OnePeriodApart ==
    (occ.pc = "done" /\ ValidRecurring(occ.item) /\ occ.days > 14) =>
        \A i \in 1..(Len(occ.result) - 1) :
            occ.result[i + 1].date =
                Increment(occ.result[i].date, NormalizeFrequency(occ.item.frequency), 1)

\* C5: for a valid recurring source and a horizon of at least one day,
\* generateOccurrences returns a non-empty sequence.
C5_AtLeastOneOccurrence ==
    (occ.pc = "done" /\ ValidRecurring(occ.item) /\ occ.days >= 1) =>
        Len(occ.result) >= 1

\* C5 witness: the walk emitted nothing and the call still returned one
\* occurrence, at the forecast start.
C5_Witness ==
    /\ occ.pc = "done"
    /\ ValidRecurring(occ.item)
    /\ occ.days >= 1
    /\ occ.w.occurrences = <<>>
    /\ Len(occ.result) = 1
    /\ occ.result[1].date = occ.now

\* C7: the walk loop of generateOccurrences runs at most min(days, 365)
\* iterations, and every iteration moves the walked date strictly forward
\* and counts one more iteration.
C7_WalkTerminates ==
    [][/\ occ'.pc = "loop" => occ'.w.count <= Max(0, MAX_OCCURRENCES(occ'.days))
       /\ (occ.pc = "loop" /\ occ'.pc = "loop") =>
            /\ occ'.w.currentDate > occ.w.currentDate
            /\ occ'.w.count = occ.w.count + 1
            /\ occ'.w.count <= MAX_OCCURRENCES(occ.days)]_vars

\* C7 witness: a walk that ran to the ceiling of 365 iterations, the last of
\* them from a date calculateNextOccurrence returned unchanged.
C7_Witness ==
    /\ occ.pc = "done"
    /\ occ.days > OCCURRENCE_CEILING
    /\ occ.w.count = OCCURRENCE_CEILING
    /\ LET last == occ.result[Len(occ.result)].date
       IN  /\ calculateNextOccurrence(last, occ.item.frequency, occ.now) = last
           /\ occ.w.currentDate > last

\* C15: two records that differ only in the spelling of the frequency (letter
\* case, surrounding whitespace, 'bi-weekly' or 'bi weekly' for 'biweekly')
\* produce the same occurrences: generateOccurrences returns for a record what
\* it returns for the record with the frequency in its normalized spelling.
C15_SpellingIrrelevant ==
    (occ.pc = "done" /\ occ.item.frequency # NoFrequency) =>
        occ.result =
            generateOccurrences(
                [occ.item EXCEPT !.frequency = NormalizeFrequency(occ.item.frequency)],
                occ.days, occ.now)

\* C24: every occurrence emitted for a recurring source is dated no earlier
\* than max(anchorDate, now) and no later than now + horizonDays; a source
\* whose anchor lies beyond the horizon yields no item before its anchor.
C24_OccurrencesInWindow ==
    (occ.pc = "done" /\ ValidRecurring(occ.item)) =>
        \A i \in 1..Len(occ.result) :
            /\ DateGE(occ.result[i].date, Max(ParseDate(occ.item.date), occ.now))
            /\ DateLE(occ.result[i].date, AddDays(occ.now, occ.days))

----------------------------------------------------------------------------
(* Specification SpecNext: one call of calculateNextOccurrence, step by step *)

\* The dates the function is called with, relative to now: in the future,
\* now, recently past, almost and more than two years back, and a string
\* that does not parse.
NextDates(now) ==
    {AddDays(now, 10), AddDays(now, 400), now, now - 1, AddDays(now, -3),
     AddDays(now, -20), AddDays(now, -200), AddDays(now, -700),
     AddDays(now, -1200), NaD}

NextFrequencies ==
    Frequencies \cup {Str_once, Str_bi_weekly, Str_bi_space, NoFrequency}

InitNext ==
    /\ nxt = IdleNext
    /\ occ = IdleOcc
    /\ horizon = IdleHorizon
    /\ call = IdleCall
    /\ ledger = <<>>
    /\ page = IdlePage

\* The call reaches the fast-forward loop: the date parses and is not after
\* now, the frequency is recognized, and the first increment leaves the date
\* not after now.
NextEntersLoop(date, frequency, now) ==
    /\ date # NaD
    /\ ~DateGT(date, now)
    /\ frequency # NoFrequency
    /\ NormalizeFrequency(frequency) \in Recognized
    /\ NextFirst(date, NormalizeFrequency(frequency), AddYears(now, -2), now) <= now

\* The locals of a call that returns without entering the loop.
NextDone(startDate, frequency, now) ==
    [pc |-> "done", startDate |-> startDate, frequency |-> frequency, now |-> now,
     nextDate |-> ParseDate(startDate), iterations |-> 0,
     result |-> calculateNextOccurrence(startDate, frequency, now)]

\* The locals of a call at the entry of the loop.
NextLooping(startDate, frequency, now) ==
    [pc |-> "loop", startDate |-> startDate, frequency |-> frequency, now |-> now,
     nextDate |-> NextFirst(ParseDate(startDate), NormalizeFrequency(frequency),
                            AddYears(now, -2), now),
     iterations |-> 0, result |-> NaD]

\* calculateNextOccurrence is called: lines 7-118.
NextCall ==
    /\ nxt.pc = "idle"
    /\ \E now \in Nows : \E startDate \in NextDates(now) :
       \E frequency \in NextFrequencies :
         nxt' = IF NextEntersLoop(ParseDate(startDate), frequency, now)
                THEN NextLooping(startDate, frequency, now)
                ELSE NextDone(startDate, frequency, now)
    /\ UNCHANGED <<occ, horizon, call, ledger, page>>

\* The condition of the fast-forward loop.
NextContinue(n) == n.nextDate <= n.now /\ n.iterations < maxIterations

\* One iteration of the fast-forward loop: lines 120-154.
NextIterate ==
    /\ nxt.pc = "loop"
    /\ NextContinue(nxt)
    /\ nxt' = [nxt EXCEPT
                 !.nextDate = Increment(nxt.nextDate,
                                        NormalizeFrequency(nxt.frequency), 1),
                 !.iterations = nxt.iterations + 1]
    /\ UNCHANGED <<occ, horizon, call, ledger, page>>

\* The loop is left and the function returns: lines 156-172.
NextReturn ==
    /\ nxt.pc = "loop"
    /\ ~NextContinue(nxt)
    /\ nxt' = [nxt EXCEPT !.pc = "done",
                          !.result = NextChecked(nxt.nextDate, nxt.now)]
    /\ UNCHANGED <<occ, horizon, call, ledger, page>>

NextNext == NextCall \/ NextIterate \/ NextReturn

SpecNext == InitNext /\ [][NextNext]_vars

\* The step-by-step call returns what the function computes.
NextResultIsFunction ==
    nxt.pc = "done" =>
        nxt.result = calculateNextOccurrence(nxt.startDate, nxt.frequency, nxt.now)

----------------------------------------------------------------------------
(* Claims about calculateNextOccurrence *)

\* C13: called with a frequency outside the recognized set and a valid date,
\* calculateNextOccurrence returns the input date unchanged, be the date in
\* the future, recently past or more than two years before now.
C13_UnrecognizedReturnsInput ==
    (/\ nxt.pc = "done"
     /\ ParseDate(nxt.startDate) # NaD
     /\ nxt.frequency # NoFrequency
     /\ NormalizeFrequency(nxt.frequency) \notin Recognized) =>
        nxt.result = nxt.startDate

\* C14: for a recognized frequency and a valid date on or before now, the
\* loop runs at most 100 iterations and calculateNextOccurrence returns a
\* date strictly after now: now + 1 day when the date is still not after now
\* at the ceiling.
C14_NextIsFuture ==
    (/\ nxt.pc # "idle"
     /\ DateLE(ParseDate(nxt.startDate), nxt.now)
     /\ nxt.frequency # NoFrequency
     /\ NormalizeFrequency(nxt.frequency) \in Recognized) =>
        /\ nxt.iterations <= maxIterations
        /\ nxt.pc = "done" =>
             /\ nxt.result > nxt.now
             /\ (nxt.iterations = maxIterations /\ nxt.nextDate <= nxt.now) =>
                    nxt.result = AddDays(nxt.now, 1)

\* C14 witness: a call that left the loop at the ceiling of 100 iterations
\* with the date still not after now, and returned now + 1 day.
C14_Witness ==
    /\ nxt.pc = "done"
    /\ DateLE(ParseDate(nxt.startDate), nxt.now)
    /\ NormalizeFrequency(nxt.frequency) \in Recognized
    /\ nxt.iterations = maxIterations
    /\ nxt.nextDate <= nxt.now
    /\ nxt.result = AddDays(nxt.now, 1)

\* The number of days of month m of year y.
DaysInMonth(y, m) ==
    DaysFromCivil(IF m = 12 THEN y + 1 ELSE y, IF m = 12 THEN 1 ELSE m + 1, 1)
        - DaysFromCivil(y, m, 1)

\* The civil date c at time of day s moved to month m of year y, its day of
\* month clamped to the length of that month.
ClampedTo(c, y, m, s) == DateAt(y, m, Min(c.d, DaysInMonth(y, m)), s)

\* The date t moved on by n calendar months, the day of month preserved and
\* clamped to the length of the target month.
ClampedAddMonths(t, n) ==
    ClampedTo(CivilFromDays(DayOf(t)),
              CivilFromDays(DayOf(t)).y + (CivilFromDays(DayOf(t)).m - 1 + n) \div 12,
              ((CivilFromDays(DayOf(t)).m - 1 + n) % 12) + 1,
              TimeOfDay(t))

\* C29: the monthly, quarterly and semiannual increments preserve the day of
\* month and clamp it to the length of the target month: a call that returns
\* after one increment of a date on or before now returns that date moved on
\* by 1, 3 or 6 calendar months, on the last day of the target month when
\* the month is shorter, never on a day of the month after it.
C29_MonthIncrementClamps ==
    (/\ nxt.pc = "done"
     /\ nxt.frequency # NoFrequency
     /\ NormalizeFrequency(nxt.frequency) \in {Str_monthly, Str_quarterly, Str_semiannually}
     /\ DateLE(ParseDate(nxt.startDate), nxt.now)
     /\ DateGE(ParseDate(nxt.startDate), AddYears(nxt.now, -2))
     /\ nxt.iterations = 0) =>
        nxt.result =
            ClampedAddMonths(nxt.startDate,
                             PeriodMonths(NormalizeFrequency(nxt.frequency)))

----------------------------------------------------------------------------
(* Specification Spec: one call of generateCashFlowForecast *)

\* The most records the collections of one call hold together.
MaxRecords == 2

\* The sequences of k distinct elements of S.
Distinct(S, k) ==
    {Tuple(q) : q \in {f \in [1..k -> S] : \A i, j \in 1..k : i # j => f[i] # f[j]}}

\* The ways to fill the four collections from four pools with at most n
\* records together.
Fillings(incomes, bills, expenses, adjustments, n) ==
    UNION {Distinct(incomes, k[1]) \X Distinct(bills, k[2])
             \X Distinct(expenses, k[3]) \X Distinct(adjustments, k[4]) :
           k \in {x \in (0..n) \X (0..n) \X (0..n) \X (0..n) :
                    x[1] + x[2] + x[3] + x[4] <= n}}

Args(now, lag, currentBalance, days, incomes, bills, expenses, adjustments) ==
    [now |-> now, lag |-> lag, currentBalance |-> currentBalance, days |-> days,
     incomes |-> incomes, bills |-> bills, expenses |-> expenses,
     adjustments |-> adjustments]

Today(now, n) == AddDays(Midnight(now), n)

IncomePool(now) ==
    {Record("inc-monthly", Today(now, 0), 1000, Str_monthly, TRUE, FALSE),
     Record("inc-biweekly", Today(now, 10), 800, Str_Bi_Weekly, TRUE, FALSE),
     Record("inc-odd", Today(now, 2), 70, Str_fortnightly, TRUE, FALSE),
     Record("inc-recent", Today(now, -3), 300, NoFrequency, FALSE, FALSE),
     Record("inc-soon", Today(now, 5), 200, Str_once, FALSE, FALSE),
     Record("inc-baddate", NaD, 90, Str_monthly, TRUE, FALSE),
     Record("inc-nan", Today(now, 5), NaN, Str_once, FALSE, FALSE),
     NullRecord}

BillPool(now) ==
    {Record("bill-monthly", Today(now, 10), 500, Str_monthly, TRUE, FALSE),
     Record("bill-paid", Today(now, 0), 45, Str_weekly, TRUE, TRUE),
     Record("bill-paid-once", Today(now, 5), 35, Str_once, FALSE, TRUE),
     Record("bill-recent", Today(now, -3), 120, Str_once, FALSE, FALSE),
     Record("bill-baddate", NaD, 80, Str_once, FALSE, FALSE),
     NullRecord}

ExpensePool(now) ==
    {Record("exp-soon", Today(now, 5), 60, NoFrequency, FALSE, FALSE),
     Record("exp-recent", Today(now, -2), 40, NoFrequency, FALSE, FALSE),
     Record("exp-old", Today(now, -30), 20, NoFrequency, FALSE, FALSE),
     NullRecord}

AdjustmentPool(now) ==
    {Record("adj-soon", Today(now, 3), -50, NoFrequency, FALSE, FALSE),
     Record("adj-past", Today(now, -10), 200, NoFrequency, FALSE, FALSE),
     Record("adj-nan", Today(now, 3), NaN, NoFrequency, FALSE, FALSE)}

\* An adjustment whose date string does not parse.
AdjBadDate(now) == Record("adj-baddate", NaD, 70, NoFrequency, FALSE, FALSE)

\* Short forecasts (at most 14 days) over every kind of record.
ShortArgs ==
    UNION {{Args(now, lag, 1000, days, Array(c[1]), Array(c[2]), Array(c[3]), Array(c[4])) :
              lag \in {0}, days \in {1, 7, 14},
              c \in Fillings(IncomePool(now), BillPool(now), ExpensePool(now),
                             AdjustmentPool(now), MaxRecords)} :
           now \in Nows}

LongIds ==
    {"inc-monthly", "inc-biweekly", "inc-odd", "inc-recent", "inc-baddate",
     "bill-monthly", "bill-paid", "bill-recent", "exp-soon", "adj-soon", "adj-past"}

Among(pool, ids) == {r \in pool : r.id \in ids}

\* Long forecasts (more than 14 days) over recurring and one-time records.
LongArgs ==
    UNION {{Args(now, lag, 1000, days, Array(c[1]), Array(c[2]), Array(c[3]), Array(c[4])) :
              lag \in {0, 1}, days \in {15, 28, 40},
              c \in Fillings(Among(IncomePool(now), LongIds), Among(BillPool(now), LongIds),
                             Among(ExpensePool(now), LongIds),
                             Among(AdjustmentPool(now), LongIds), MaxRecords)} :
           now \in Nows}

BadDateIds == {"inc-recent", "inc-soon", "bill-recent", "exp-soon", "adj-soon"}

\* Short forecasts with a balance adjustment whose date does not parse.
BadDateArgs ==
    UNION {{Args(now, 0, 1000, days, Array(c[1]), Array(c[2]), Array(c[3]),
                 Array(<<AdjBadDate(now)>> \o c[4])) :
              days \in {1, 7},
              c \in Fillings(Among(IncomePool(now), BadDateIds),
                             Among(BillPool(now), BadDateIds),
                             Among(ExpensePool(now), BadDateIds),
                             Among(AdjustmentPool(now), BadDateIds), MaxRecords - 1)} :
           now \in {DateAt(2024, 3, 15, 1)}}

\* The collections of the calls with unusual arguments.
EdgeCollections(now) ==
    {<<Array(<<>>), Array(<<>>), Array(<<>>), Array(<<>>)>>,
     <<NonArray, NonArray, NonArray, NonArray>>,
     <<Array(<<NullRecord>>), Array(<<NullRecord>>), Array(<<NullRecord>>),
       Array(<<NullRecord>>)>>,
     <<Array(<<Record("inc-daily", Today(now, 0), 5, Str_daily, TRUE, FALSE)>>),
       NonArray, Array(<<>>), Array(<<>>)>>,
     <<Array(<<Record("inc-monthly", Today(now, 0), 1000, Str_monthly, TRUE, FALSE)>>),
       Array(<<Record("bill-monthly", Today(now, 10), 500, Str_monthly, TRUE, FALSE)>>),
       Array(<<Record("exp-soon", Today(now, 5), 60, NoFrequency, FALSE, FALSE)>>),
       Array(<<Record("adj-soon", Today(now, 3), -50, NoFrequency, FALSE, FALSE)>>)>>}

\* Calls with an absent, invalid or out-of-range horizon and balance.
EdgeArgs ==
    UNION {{Args(now, lag, currentBalance, days, c[1], c[2], c[3], c[4]) :
              lag \in {0, 1}, currentBalance \in {1000, NaN},
              days \in {0, -5, NaN, Undefined, NotANumber, 90, 365, 400},
              c \in EdgeCollections(now)} :
           now \in {DateAt(2024, 3, 15, 1)}}

\* A biweekly income of 1000 whose date is today (midnight, or the time of
\* the call), forecast over 28 days.
BiweeklyTodayArgs ==
    UNION {{Args(now, lag, 1000, 28,
                 Array(<<Record("inc-today", date, 1000, Str_biweekly, TRUE, FALSE)>>),
                 Array(<<>>), Array(<<>>), Array(<<>>)) :
              lag \in {0, 1}, date \in {Today(now, 0), now}} :
           now \in Nows}

\* Bills whose dueDate does not parse, recurring and one-time.
BadBills ==
    {Record("bill-bad-monthly", NaD, 80, Str_monthly, TRUE, FALSE),
     Record("bill-bad-once", NaD, 80, Str_once, FALSE, FALSE)}

\* Calls with such a bill before zero, one or two other bills, on a short and
\* on a long horizon.
BadBillArgs ==
    UNION {{Args(now, 0, 1000, days, Array(incomes), Array(<<bad>> \o bills),
                 Array(<<>>), Array(<<>>)) :
              days \in {1, 28}, bad \in BadBills,
              incomes \in {<<>>, <<Record("inc-soon", Today(now, 5), 200, Str_once,
                                           FALSE, FALSE)>>},
              bills \in {<<>>,
                         <<Record("bill-recent", Today(now, -3), 120, Str_once,
                                  FALSE, FALSE)>>,
                         <<Record("bill-recent", Today(now, -3), 120, Str_once,
                                  FALSE, FALSE),
                           Record("bill-today", Today(now, 0), 45, Str_once,
                                  FALSE, FALSE)>>}} :
           now \in Nows}

\* n one-time records of one collection, all dated three days ago.
RecentRecords(prefix, n, now) ==
    Tuple([i \in 1..n |->
            Record(prefix \o ToString(i), Today(now, -3), 10, Str_once, FALSE, FALSE)])

\* Calls over the longest horizon with full collections of recent one-time
\* incomes and bills.
CrowdedArgs ==
    {Args(now, 0, 1000, 365, Array(RecentRecords("inc-", 200, now)),
          Array(RecentRecords("bill-", bills, now)), Array(<<>>), Array(<<>>)) :
       now \in {DateAt(2024, 3, 15, 1)}, bills \in {100, 200}}

\* n valid balance adjustments, dated in three days.
ManyAdjustments(n, now) ==
    Tuple([i \in 1..n |->
            Record("adj-" \o ToString(i), Today(now, 3), -50, NoFrequency, FALSE, FALSE)])

\* Calls over one day with several balance adjustments, after no other
\* records or after two recent one-time records of each other collection.
ManyAdjustmentsArgs ==
    UNION {{Args(now, 0, 1000, 1, Array(RecentRecords("inc-", others, now)),
                 Array(RecentRecords("bill-", others, now)),
                 Array(RecentRecords("exp-", others, now)),
                 Array(ManyAdjustments(n, now))) :
              others \in {0, 2}, n \in 3..7} :
           now \in Nows}

\* Short forecasts over recurring records with a past anchor date.
ShortRecurringArgs ==
    UNION {{Args(now, lag, 1000, days, Array(incomes), Array(bills), Array(<<>>),
                 Array(<<>>)) :
              lag \in {0, 1}, days \in {1, 7, 14},
              incomes \in {<<>>,
                           <<Record("inc-daily", Today(now, -3), 5, Str_daily, TRUE, FALSE)>>,
                           <<Record("inc-weekly", Today(now, -3), 400, Str_weekly,
                                    TRUE, FALSE)>>},
              bills \in {<<>>,
                         <<Record("bill-weekly", now, 45, Str_weekly, TRUE, FALSE)>>,
                         <<Record("bill-biweekly", Today(now, -30), 60, Str_bi_space,
                                  TRUE, FALSE)>>}} :
           now \in Nows}

ForecastArgs ==
    ShortArgs \cup LongArgs \cup BadDateArgs \cup EdgeArgs \cup BiweeklyTodayArgs
        \cup BadBillArgs \cup CrowdedArgs \cup ManyAdjustmentsArgs
        \cup ShortRecurringArgs

Init ==
    /\ nxt = IdleNext
    /\ occ = IdleOcc
    /\ horizon = IdleHorizon
    /\ \E a \in ForecastArgs : call = [pc |-> "called", args |-> a]
    /\ ledger = <<>>
    /\ page = IdlePage

\* The try block runs to its return statement: lines 324-753.
ForecastReturns ==
    /\ call.pc = "called"
    /\ ~Throws(call.args)
    /\ ledger' \in ForecastBody(call.args)
    /\ call' = [call EXCEPT !.pc = "returned"]
    /\ UNCHANGED <<nxt, occ, horizon, page>>

\* The try block throws and the catch block returns: lines 755-768.
ForecastFails ==
    /\ call.pc = "called"
    /\ Throws(call.args)
    /\ ledger' = MinimalForecast(call.args.currentBalance, call.args.now)
    /\ call' = [call EXCEPT !.pc = "returned"]
    /\ UNCHANGED <<nxt, occ, horizon, page>>

Next == ForecastReturns \/ ForecastFails

Spec == Init /\ [][Next]_vars

----------------------------------------------------------------------------
(* Claims about generateCashFlowForecast *)

Returned == call.pc = "returned"

\* C1: in every returned ledger, an item after the first that is neither a
\* balance nor a marker has runningBalance equal to the runningBalance of
\* the item before it plus its own amount; a marker has amount 0 and the
\* runningBalance of the item before it.
C1_RunningBalanceConsistent ==
    Returned =>
        \A i \in 2..Len(ledger) :
            /\ ledger[i].type \notin {"balance", "marker"} =>
                 ledger[i].runningBalance =
                    ledger[i - 1].runningBalance + ledger[i].amount
            /\ ledger[i].type = "marker" =>
                 /\ ledger[i].amount = 0
                 /\ ledger[i].runningBalance = ledger[i - 1].runningBalance

\* C1 witness: a ledger where an item moved the running balance away from
\* the starting balance and a marker follows it.
C1_Witness ==
    /\ Returned
    /\ \E i \in 2..Len(ledger) : \E j \in 2..Len(ledger) :
         /\ i < j
         /\ ledger[i].type \notin {"balance", "marker"}
         /\ ledger[i].amount # 0
         /\ ledger[j].type = "marker"
         /\ ledger[j].runningBalance # normalizedBalance(call.args.currentBalance)

\* C2: in every returned ledger the dates of adjacent items are in
\* non-decreasing order, also with adjustments whose date does not parse.
C2_MonotonicDates ==
    Returned =>
        \A i \in 1..(Len(ledger) - 1) :
            DateLE(ParseDate(ledger[i].date), ParseDate(ledger[i + 1].date))

\* C6: a returned ledger has at most 365 items.
C6_BoundedLedger == Returned => Len(ledger) <= MAX_LEDGER

\* C6 witness: the working set held more than 365 items and the returned
\* ledger holds 365.
C6_Witness ==
    /\ Returned
    /\ ~Throws(call.args)
    /\ Len(WorkingSet(call.args)) > MAX_LEDGER
    /\ Len(ledger) = MAX_LEDGER

\* The paid bills among the arguments.
PaidBills(a) ==
    {b \in {a.bills.items[i] : i \in 1..Len(a.bills.items)} : ~b.null /\ b.isPaid}

\* C8: a bill with isPaid = true has no item in the returned ledger.
C8_PaidBillsExcluded ==
    Returned =>
        \A b \in PaidBills(call.args) :
            \A i \in 1..Len(ledger) : ledger[i].itemId # b.id

\* C8 witness: a paid bill that would have had items in the ledger, were it
\* not paid, and has none.
C8_Witness ==
    /\ Returned
    /\ ~Throws(call.args)
    /\ \E b \in PaidBills(call.args) :
         /\ processUnpaidBill(b, normalizedDays(call.args.days), call.args.now,
                              call.args.now + call.args.lag) # <<>>
         /\ \A i \in 1..Len(ledger) : ledger[i].itemId # b.id

\* C9: every returned ledger begins with the balance item, whose amount and
\* runningBalance are the normalized current balance.
C9_BalanceItemFirst ==
    Returned =>
        /\ Len(ledger) >= 1
        /\ ledger[1].type = "balance"
        /\ ledger[1].amount = normalizedBalance(call.args.currentBalance)
        /\ ledger[1].runningBalance = normalizedBalance(call.args.currentBalance)

RecordsOf(c) == {c.items[i] : i \in 1..Len(c.items)}

\* The positions of the ledger items of the record with this id.
LedgerItemsOf(id) == {i \in 1..Len(ledger) : ledger[i].itemId = id}

\* A well-formed record: an id, a date that parses, a number as amount.
WellFormed(r) ==
    ~r.null /\ r.id # NoId /\ ParseDate(r.date) # NaD /\ ~isNaN(r.amount)

\* A non-recurring source: frequency absent or 'once', or isRecurring false.
NonRecurring(r) ==
    r.frequency = NoFrequency \/ NormalizeFrequency(r.frequency) = Str_once
        \/ ~r.isRecurring

\* The ledger holds exactly one item of r, at r's date, of this amount.
OneItemAtAnchor(r, amount) ==
    /\ Cardinality(LedgerItemsOf(r.id)) = 1
    /\ \A i \in LedgerItemsOf(r.id) :
         ledger[i].date = r.date /\ ledger[i].amount = amount

\* C11: a well-formed non-recurring source yields exactly one ledger item,
\* dated at its anchor date, with its positive amount for an income and
\* -abs(amount) for an unpaid bill or an expense, wherever the anchor date
\* lies relative to now and the horizon.
C11_OneShotOneItem ==
    (Returned /\ ~Throws(call.args)) =>
        /\ \A r \in RecordsOf(call.args.incomes) :
             (WellFormed(r) /\ NonRecurring(r) /\ r.amount > 0) =>
                 OneItemAtAnchor(r, r.amount)
        /\ \A r \in RecordsOf(call.args.bills) :
             (WellFormed(r) /\ NonRecurring(r) /\ ~r.isPaid) =>
                 OneItemAtAnchor(r, -Abs(r.amount))
        /\ \A r \in RecordsOf(call.args.expenses) :
             (WellFormed(r) /\ NonRecurring(r)) =>
                 OneItemAtAnchor(r, -Abs(r.amount))

\* A frequency outside the closed set once, daily, ..., annually.
Unrecognized(frequency) ==
    /\ frequency # NoFrequency
    /\ NormalizeFrequency(frequency) \notin Recognized \cup {Str_once}

\* The anchor date of r lies inside the forecast period of the call.
AnchorInPeriod(r) ==
    InForecastWindow(ParseDate(r.date), call.args.now, normalizedDays(call.args.days))
        /\ DateGE(ParseDate(r.date), call.args.now)

\* C12: a well-formed record marked recurring whose frequency is outside the
\* closed set is treated as a one-shot: the ledger holds exactly one item for
\* it, dated at its anchor date (here for an anchor date inside the forecast
\* period, where a one-shot of the same date is emitted).
C12_UnrecognizedIsOneShot ==
    (Returned /\ ~Throws(call.args)) =>
        /\ \A r \in RecordsOf(call.args.incomes) :
             (WellFormed(r) /\ r.isRecurring /\ Unrecognized(r.frequency)
                /\ r.amount > 0 /\ AnchorInPeriod(r)) => OneItemAtAnchor(r, r.amount)
        /\ \A r \in RecordsOf(call.args.bills) :
             (WellFormed(r) /\ r.isRecurring /\ Unrecognized(r.frequency)
                /\ ~r.isPaid /\ AnchorInPeriod(r)) => OneItemAtAnchor(r, -Abs(r.amount))

\* The positions of the income items of the ledger.
LedgerIncomes == {i \in 1..Len(ledger) : ledger[i].type = "income"}

\* C16: a biweekly recurring income of 1000 whose anchor date is today,
\* forecast over 28 days, yields exactly 2 income occurrences in the ledger,
\* 14 days apart.
C16_BiweeklyTwice ==
    (Returned /\ call.args \in BiweeklyTodayArgs) =>
        /\ Cardinality(LedgerIncomes) = 2
        /\ \E i, j \in LedgerIncomes :
             ledger[j].date = AddDays(ledger[i].date, 14)

\* A record with a date that does not parse.
BadDate(r) == ~r.null /\ r.date # NoDate /\ ParseDate(r.date) = NaD

\* The collection without the records that satisfy Drop.
Without(c, Drop(_)) == [c EXCEPT !.items = SelectSeq(c.items, LAMBDA r : ~Drop(r))]

\* C18: a bill whose dueDate does not parse contributes no item, and the
\* ledger is one the call returns without that bill: the items of the other
\* bills and of the incomes are the same.
C18_BadBillDropped ==
    (Returned /\ ~Throws(call.args)) =>
        /\ \A b \in RecordsOf(call.args.bills) :
             BadDate(b) => LedgerItemsOf(b.id) = {}
        /\ ledger \in generateCashFlowForecast(
                          [call.args EXCEPT !.bills = Without(call.args.bills, BadDate)])

\* A malformed record: missing id, missing or unparseable date, or an amount
\* that is not a number.
Malformed(r) ==
    ~r.null /\ (r.id = NoId \/ r.date = NoDate \/ ParseDate(r.date) = NaD
                  \/ isNaN(r.amount))

\* The arguments without their malformed records.
WithoutMalformed(a) ==
    [a EXCEPT !.incomes = Without(a.incomes, Malformed),
              !.bills = Without(a.bills, Malformed),
              !.expenses = Without(a.expenses, Malformed),
              !.adjustments = Without(a.adjustments, Malformed)]

\* C19: a malformed record of any input collection contributes no item to
\* the ledger, and the ledger is one the call returns without the malformed
\* records: the items of their sibling records are the same.
C19_MalformedDropped ==
    (Returned /\ ~Throws(call.args)) =>
        /\ \A r \in RecordsOf(call.args.incomes) \cup RecordsOf(call.args.bills)
                      \cup RecordsOf(call.args.expenses)
                      \cup RecordsOf(call.args.adjustments) :
             Malformed(r) => LedgerItemsOf(r.id) = {}
        /\ ledger \in generateCashFlowForecast(WithoutMalformed(call.args))

\* The positions of the balance items of the ledger.
LedgerBalances == {i \in 1..Len(ledger) : ledger[i].type = "balance"}

\* C25: every returned ledger contains exactly one item of kind balance,
\* whatever the number and dates of the input records: neither the caps of
\* the collections nor the sort and the trim to 365 items remove it.
C25_OneBalanceItem == Returned => Cardinality(LedgerBalances) = 1

\* The sum of the amounts of items[lo..hi].
RECURSIVE SumAmounts(_, _, _)
SumAmounts(items, lo, hi) ==
    IF lo > hi THEN 0
    ELSE IF lo = hi THEN items[lo].amount
    ELSE SumAmounts(items, lo, (lo + hi) \div 2)
            + SumAmounts(items, (lo + hi) \div 2 + 1, hi)

\* C26: items dated before now that sort ahead of the balance item have no
\* effect on later balances: the balance item's runningBalance is the
\* normalized current balance, and the runningBalance of every later item is
\* the normalized current balance plus the sum of the amounts of the items
\* after the balance item up to and including it.
C26_PastItemsNoEffect ==
    Returned =>
        \A b \in LedgerBalances :
            /\ ledger[b].runningBalance = normalizedBalance(call.args.currentBalance)
            /\ \A j \in (b + 1)..Len(ledger) :
                 ledger[j].runningBalance =
                    normalizedBalance(call.args.currentBalance)
                        + SumAmounts(ledger, b + 1, j)

\* C26 witness: a ledger where an item dated before now, with an amount,
\* stands ahead of the balance item and an item with an amount follows it.
C26_Witness ==
    /\ Returned
    /\ \E b \in LedgerBalances :
         /\ \E i \in 1..(b - 1) :
              ledger[i].amount # 0 /\ DateLT(ParseDate(ledger[i].date), call.args.now)
         /\ \E j \in (b + 1)..Len(ledger) : ledger[j].amount # 0

\* A valid balance adjustment: id, date and a numeric amount present.
ValidAdjustment(r) ==
    ~r.null /\ r.id # NoId /\ r.date # NoDate /\ ~isNaN(r.amount)

\* C27: each valid balance adjustment among the supplied adjustments appears
\* in the ledger as exactly one item of category 'adjustment' whose amount is
\* the adjustment's signed amount, whatever the number of incomes, bills and
\* expenses processed before it.
C27_AdjustmentsAppear ==
    (Returned /\ ~Throws(call.args)) =>
        \A r \in RecordsOf(call.args.adjustments) :
            ValidAdjustment(r) =>
                /\ Cardinality(LedgerItemsOf(r.id)) = 1
                /\ \A i \in LedgerItemsOf(r.id) :
                     ledger[i].category = "adjustment" /\ ledger[i].amount = r.amount

\* The records of a collection that the call processes: the first MAX_ITEMS.
ProcessedRecords(c) ==
    RecordsOf(Array(ValidSlice(c, MAX_ITEMS(normalizedDays(call.args.days)))))

\* A recurring record of a recognized frequency, as the callbacks take it.
RecurringSource(r) ==
    /\ WellFormed(r)
    /\ r.isRecurring
    /\ r.frequency # NoFrequency
    /\ NormalizeFrequency(r.frequency) \in Recognized

\* The next occurrence of r: its anchor date when that is after now, else
\* one period after now.
NextOccurrenceOf(r, now) ==
    IF DateGT(ParseDate(r.date), now) THEN ParseDate(r.date)
    ELSE Increment(now, NormalizeFrequency(r.frequency), 1)

\* The ledger holds the next occurrence of r and no other item of r when
\* that occurrence is inside the horizon, else no item of r.
NextOccurrenceOnly(r, amount) ==
    IF DateLE(NextOccurrenceOf(r, call.args.now),
              AddDays(call.args.now, normalizedDays(call.args.days)))
    THEN /\ Cardinality(LedgerItemsOf(r.id)) = 1
         /\ \A i \in LedgerItemsOf(r.id) :
              /\ ledger[i].date = NextOccurrenceOf(r, call.args.now)
              /\ ledger[i].amount = amount
    ELSE LedgerItemsOf(r.id) = {}

----------------------------------------------------------------------------
(* Specification SpecHorizon: the horizon normalization of                 *)
(* generateCashFlowForecast, in financial-utils.ts and in part_000          *)

\* The largest horizon passed in the model.
MaxHorizon == 400

\* The horizons passed: absent, NaN, negative, zero, and 1..MaxHorizon.
HorizonInputs == (-3..MaxHorizon) \cup {NaN, Undefined}

InitHorizon ==
    /\ nxt = IdleNext
    /\ occ = IdleOcc
    /\ \E source \in {"financial-utils.ts", "part_000"} : \E days \in HorizonInputs :
         horizon = [pc |-> "called", source |-> source, days |-> days,
                    normalizedDays |-> 0]
    /\ call = IdleCall
    /\ ledger = <<>>
    /\ page = IdlePage

\* financial-utils.ts, line 330.
NormalizeDays ==
    /\ horizon.pc = "called"
    /\ horizon.source = "financial-utils.ts"
    /\ horizon' = [horizon EXCEPT !.pc = "normalized",
                                  !.normalizedDays = normalizedDays(horizon.days)]
    /\ UNCHANGED <<nxt, occ, call, ledger, page>>

\* part_000, line 100.
NormalizeDays_part_000 ==
    /\ horizon.pc = "called"
    /\ horizon.source = "part_000"
    /\ horizon' = [horizon EXCEPT !.pc = "normalized",
                                  !.normalizedDays = normalizedDays_part_000(horizon.days)]
    /\ UNCHANGED <<nxt, occ, call, ledger, page>>

NextHorizon == NormalizeDays \/ NormalizeDays_part_000

SpecHorizon == InitHorizon /\ [][NextHorizon]_vars

\* C17: the horizon is normalized into (0, 365]: absent, NaN, 0 or negative
\* becomes 90, a horizon above 365 becomes 365, any other value is used as
\* given.
C17_HorizonClamped ==
    horizon.pc = "normalized" =>
        /\ horizon.normalizedDays \in 1..MAX_FORECAST_DAYS
        /\ horizon.normalizedDays =
             IF horizon.days \in {Undefined, NaN} \/ horizon.days <= 0 THEN DEFAULT_DAYS
             ELSE IF horizon.days > MAX_FORECAST_DAYS THEN MAX_FORECAST_DAYS
             ELSE horizon.days

----------------------------------------------------------------------------
(* Specification SpecPage: the forecasting page *)
(* variant "applyScenario": the page with the applyScenario callback;      *)
(* variant "generateScenarioForecast": src/app/forecasting/page.tsx.       *)

\* The most scenario applications in one run of the page.
MaxScenarioRuns == 2

\* The most updates of the stored data (balance, bill) in one run of the page.
MaxUpdates == 1

Variants == {"applyScenario", "generateScenarioForecast"}

\* The periods the user selects in the model.
PeriodInputs == {"1m", "3m"}

\* let forecastDays = 90; if (forecastPeriod === "1m") forecastDays = 30; ...
forecastDays(forecastPeriod) ==
    CASE forecastPeriod = "1m"  -> 30
      [] forecastPeriod = "3m"  -> 90
      [] forecastPeriod = "6m"  -> 180
      [] forecastPeriod = "12m" -> 365
      [] OTHER                  -> 90

\* amount * (1 + adjustment / 100); the model's amounts and percentages keep
\* the product a whole number.
Scale(amount, adjustment) == (amount * (100 + adjustment)) \div 100

ScaleAll(records, adjustment) ==
    Tuple([i \in 1..Len(records) |->
            [records[i] EXCEPT !.amount = Scale(records[i].amount, adjustment)]])

PageArgs(pg, incomes, bills, expenses, adjustments, currentBalance) ==
    Args(pg.now, 0, currentBalance, forecastDays(pg.forecastPeriod),
         Array(incomes), Array(bills), Array(expenses), Array(adjustments))

\* The generation key the effect compares with lastGenerationRef.
GenerationKey(pg) ==
    [balanceId |-> pg.lastUpdated, incomesCount |-> Len(pg.incomesData),
     billsCount |-> Len(pg.billsData), expensesCount |-> Len(pg.expensesData),
     forecastPeriod |-> pg.forecastPeriod]

\* [...forecast].sort(by date), and an end marker when the ledger spans less
\* than 90% of the period (page.tsx).
WithEndMarker(forecast, days, now, markerId) ==
    LET Marked(sorted, dayRange) ==
            IF 10 * dayRange < 9 * days
            THEN Append(sorted,
                        [Item(markerId, AddDays(now, days), 0, "marker", "marker")
                            EXCEPT !.runningBalance = sorted[Len(sorted)].runningBalance])
            ELSE sorted
        Spanning(sorted) ==
            Marked(sorted,
                   (sorted[Len(sorted)].date - sorted[1].date + TicksPerDay - 1)
                       \div TicksPerDay)
    IN  Spanning(SortByDate(forecast))

\* The inputs of the scenario as applyScenario builds them: the income, bill
\* and expense objects with their amounts adjusted, a recurring monthly
\* savings bill, a one-time expense.
ScenarioIncomes(pg) ==
    IF pg.incomeAdjustment # 0 THEN ScaleAll(pg.incomesData, pg.incomeAdjustment)
    ELSE pg.incomesData

ScenarioBills(pg) ==
    IF pg.expensesAdjustment # 0 THEN ScaleAll(pg.billsData, pg.expensesAdjustment)
    ELSE pg.billsData

ScenarioExpenses(pg) ==
    IF pg.expensesAdjustment # 0 THEN ScaleAll(pg.expensesData, pg.expensesAdjustment)
    ELSE pg.expensesData

SavingsBill(pg) ==
    IF pg.savingsAdjustment > 0
    THEN <<Record("scenario-savings", pg.now, pg.savingsAdjustment, Str_monthly, TRUE, FALSE)>>
    ELSE <<>>

UNEXPECTED_DELAY == 14

UnexpectedExpense(pg) ==
    IF pg.unexpectedExpense > 0
    THEN <<Record("scenario-expense",
                  IF pg.unexpectedExpenseDate = NoDate
                  THEN AddDays(pg.now, UNEXPECTED_DELAY) ELSE pg.unexpectedExpenseDate,
                  pg.unexpectedExpense, NoFrequency, FALSE, FALSE)>>
    ELSE <<>>

\* The collections applyScenario passes to the generator.
applyScenarioInputs(pg) ==
    [incomes            |-> ScenarioIncomes(pg),
     bills              |-> ScenarioBills(pg) \o SavingsBill(pg),
     expenses           |-> ScenarioExpenses(pg) \o UnexpectedExpense(pg),
     balanceAdjustments |-> <<>>]

\* The pages applyScenario may leave.  The collections it adjusts are shallow
\* copies ([...array]): their elements are the objects of the baseline
\* collections, so assigning income.amount assigns the baseline's record.  A
\* record pushed on a copy is not in the baseline collection.
applyScenario(pg) ==
    IF pg.forecastData = <<>> \/ ~pg.loaded THEN {pg}
    ELSE {[pg EXCEPT !.incomesData = ScenarioIncomes(pg),
                     !.billsData = ScenarioBills(pg),
                     !.expensesData = ScenarioExpenses(pg),
                     !.scenarioForecast =
                         IF scenarioForecast = <<>> THEN pg.scenarioForecast
                         ELSE scenarioForecast] :
            scenarioForecast \in generateCashFlowForecast(
                PageArgs(pg, applyScenarioInputs(pg).incomes,
                         applyScenarioInputs(pg).bills,
                         applyScenarioInputs(pg).expenses,
                         applyScenarioInputs(pg).balanceAdjustments,
                         pg.currentBalance))}

MAX_SAVINGS_MONTHS == 12

\* id: `savings-increase-${i}`
SavingsIds ==
    <<"savings-increase-0", "savings-increase-1", "savings-increase-2",
      "savings-increase-3", "savings-increase-4", "savings-increase-5",
      "savings-increase-6", "savings-increase-7", "savings-increase-8",
      "savings-increase-9", "savings-increase-10", "savings-increase-11">>

\* The balance adjustments generateScenarioForecast builds: the savings
\* amount on the first day of each following month, and the one-time expense.
ScenarioAdjustments(pg) ==
    LET Savings(months, first) ==
            IF pg.savingsAdjustment > 0
            THEN Tuple([i \in 1..months |->
                    Record(SavingsIds[i], AddMonths(first, i),
                           pg.savingsAdjustment, NoFrequency, FALSE, FALSE)])
            ELSE <<>>
        FirstOfMonth(c) == DateAt(c.y, c.m, 1, TimeOfDay(pg.now))
    IN  Savings(Min((forecastDays(pg.forecastPeriod) + 29) \div 30, MAX_SAVINGS_MONTHS),
                FirstOfMonth(CivilFromDays(DayOf(pg.now))))
        \o (IF pg.unexpectedExpense > 0 /\ pg.unexpectedExpenseDate # NoDate
            THEN <<Record("unexpected", pg.unexpectedExpenseDate,
                          -pg.unexpectedExpense, NoFrequency, FALSE, FALSE)>>
            ELSE <<>>)

\* The collections generateScenarioForecast passes to the generator.
generateScenarioInputs(pg) ==
    [incomes            |-> ScaleAll(pg.incomesData, pg.incomeAdjustment),
     bills              |-> ScaleAll(pg.billsData, pg.expensesAdjustment),
     expenses           |-> ScaleAll(pg.expensesData, pg.expensesAdjustment),
     balanceAdjustments |-> ScenarioAdjustments(pg)]

\* The pages generateScenarioForecast may leave: it adjusts copies of the
\* records (map with a spread).
generateScenarioForecast(pg) ==
    IF ~pg.loaded THEN {pg}
    ELSE {[pg EXCEPT !.scenarioForecast =
                IF scenarioForecast = <<>> THEN <<>>
                ELSE WithEndMarker(scenarioForecast, forecastDays(pg.forecastPeriod),
                                   pg.now, "scenario-end-marker")] :
            scenarioForecast \in generateCashFlowForecast(
                PageArgs(pg, generateScenarioInputs(pg).incomes,
                         generateScenarioInputs(pg).bills,
                         generateScenarioInputs(pg).expenses,
                         generateScenarioInputs(pg).balanceAdjustments,
                         IF isNaN(pg.currentBalance) THEN 0 ELSE pg.currentBalance))}

\* The effect keeping the scenario ledger on display while it regenerates
\* the baseline.
EffectCleared_KeepingScenario(pg) == [pg EXCEPT !.forecastData = <<>>]

\* setForecastData([]); setScenarioForecast([]): the effect clears both
\* ledgers before it generates.
EffectCleared(pg) == [pg EXCEPT !.forecastData = <<>>, !.scenarioForecast = <<>>]

\* The forecast generation effect, which React runs after the render that
\* follows a change of one of its dependencies and before the next event is
\* handled.  It returns early while the data is not loaded or when the
\* generation key is the one of the forecast on display.
PageEffectOutcomes(pg) ==
    IF ~pg.loaded THEN {pg}
    ELSE IF GenerationKey(pg) = pg.lastGeneration /\ pg.forecastData # <<>> THEN {pg}
    ELSE LET cleared == EffectCleared(pg)
             days    == forecastDays(pg.forecastPeriod)
             shown(forecast) ==
                 [cleared EXCEPT !.forecastData =
                                     IF pg.variant = "applyScenario" THEN forecast
                                     ELSE WithEndMarker(forecast, days, pg.now, "end-marker"),
                                 !.lastGeneration = GenerationKey(pg)]
         IN  UNION {IF forecast = <<>> THEN {cleared}
                    ELSE IF pg.variant = "generateScenarioForecast" /\ pg.isSimulationMode
                    THEN generateScenarioForecast(shown(forecast))
                    ELSE {shown(forecast)} :
                 forecast \in generateCashFlowForecast(
                     PageArgs(pg, pg.incomesData, pg.billsData, pg.expensesData, <<>>,
                              pg.currentBalance))}

\* The clock of the page.
PageNows == {DateAt(2024, 3, 15, 1)}

\* The data the financial-data hook delivers.
PageData(now) ==
    {[currentBalance |-> 1000, lastUpdated |-> "2024-03-01",
      incomesData |-> <<Record("inc-1", Today(now, -20), 1000, Str_monthly, TRUE, FALSE)>>,
      billsData |-> <<Record("bill-1", Today(now, 10), 1000, Str_once, FALSE, FALSE)>>,
      expensesData |-> <<Record("exp-1", Today(now, 5), 2000, NoFrequency, FALSE, FALSE)>>]}

\* The balances the user enters, and the amounts a bill is edited to.
BalanceInputs == {1000, 2500}
BillAmounts   == {1000, 1200}

IncomeAdjustments  == {0, 10}
ExpenseAdjustments == {0, -50}
SavingsAdjustments == {0, 100}
UnexpectedExpenses == {0, 300}

\* The state of the page at its first render (useState, useRef).
InitialPage(variant, now) ==
    [loaded |-> FALSE, variant |-> variant, now |-> now,
     currentBalance |-> 0, lastUpdated |-> "",
     incomesData |-> <<>>, billsData |-> <<>>, expensesData |-> <<>>,
     forecastPeriod |-> "3m",
     incomeAdjustment |-> 0, expensesAdjustment |-> 0,
     savingsAdjustment |-> 0, unexpectedExpense |-> 0,
     unexpectedExpenseDate |-> NoDate,
     isSimulationMode |-> FALSE,
     forecastData |-> <<>>, scenarioForecast |-> <<>>,
     lastGeneration |-> [balanceId |-> "", incomesCount |-> 0,
                         billsCount |-> 0, expensesCount |-> 0,
                         forecastPeriod |-> "3m"],
     applied |-> 0, updates |-> 0]

InitPage ==
    /\ nxt = IdleNext
    /\ occ = IdleOcc
    /\ horizon = IdleHorizon
    /\ call = IdleCall
    /\ ledger = <<>>
    /\ \E variant \in Variants : \E now \in PageNows :
         page = InitialPage(variant, now)

Idle == UNCHANGED <<nxt, occ, horizon, call, ledger>>

\* The page with the profile and the collections of the hook.
Loaded(pg, d) ==
    [pg EXCEPT !.loaded = TRUE,
               !.currentBalance = d.currentBalance,
               !.lastUpdated = d.lastUpdated,
               !.incomesData = d.incomesData,
               !.billsData = d.billsData,
               !.expensesData = d.expensesData]

\* The financial-data hook delivers the profile and the collections; the
\* effect depends on them.
DataLoads ==
    /\ ~page.loaded
    /\ \E d \in PageData(page.now) :
         page' \in PageEffectOutcomes(Loaded(page, d))
    /\ Idle

\* lastUpdated: new Date().toISOString() at the n-th update of the balance:
\* a stamp no earlier update carries.
UpdateStamp(n) == "2024-03-15T10:00:0" \o ToString(n)

\* updateBalance of the financial-data hook: the profile it sets carries the
\* new balance and a new lastUpdated; the effect depends on the profile.
updateBalance ==
    /\ page.loaded
    /\ page.updates < MaxUpdates
    /\ \E newBalance \in BalanceInputs :
         page' \in PageEffectOutcomes(
                      [page EXCEPT !.currentBalance = newBalance,
                                   !.lastUpdated = UpdateStamp(page.updates + 1),
                                   !.updates = page.updates + 1])
    /\ Idle

\* updateBill of the financial-data hook: setBills(prev.map(...)) delivers a
\* collection of the same length holding the edited record; the profile is
\* the one it was.  The effect depends on the collection.
updateBill ==
    /\ page.loaded
    /\ page.updates < MaxUpdates
    /\ \E i \in 1..Len(page.billsData) :
       \E amount \in BillAmounts \ {page.billsData[i].amount} :
         page' \in PageEffectOutcomes(
                      [page EXCEPT !.billsData[i].amount = amount,
                                   !.updates = page.updates + 1])
    /\ Idle

\* The period selector: handlePeriodChange / setForecastPeriod; the effect
\* depends on the period.
handlePeriodChange ==
    /\ page.loaded
    /\ \E value \in PeriodInputs :
         /\ value # page.forecastPeriod
         /\ page' \in PageEffectOutcomes([page EXCEPT !.forecastPeriod = value])
    /\ Idle

\* The scenario controls: inputs of the page with applyScenario, disabled
\* unless the simulation mode is on.  The other page never calls the setters
\* with a value of the user.  Only applyScenario reads the controls, so the
\* model stops changing them when no further application can follow.
ScenarioControlsEnabled ==
    /\ page.variant = "applyScenario"
    /\ page.loaded
    /\ page.isSimulationMode
    /\ page.applied < MaxScenarioRuns

setIncomeAdjustment ==
    /\ ScenarioControlsEnabled
    /\ \E v \in IncomeAdjustments \ {page.incomeAdjustment} :
         page' = [page EXCEPT !.incomeAdjustment = v]
    /\ Idle

setExpensesAdjustment ==
    /\ ScenarioControlsEnabled
    /\ \E v \in ExpenseAdjustments \ {page.expensesAdjustment} :
         page' = [page EXCEPT !.expensesAdjustment = v]
    /\ Idle

setSavingsAdjustment ==
    /\ ScenarioControlsEnabled
    /\ \E v \in SavingsAdjustments \ {page.savingsAdjustment} :
         page' = [page EXCEPT !.savingsAdjustment = v]
    /\ Idle

setUnexpectedExpense ==
    /\ ScenarioControlsEnabled
    /\ \E v \in UnexpectedExpenses \ {page.unexpectedExpense} :
         page' = [page EXCEPT !.unexpectedExpense = v]
    /\ Idle

\* The "apply scenario" handler of either page.
ApplyScenario ==
    /\ page.loaded
    /\ page.applied < MaxScenarioRuns
    /\ \/ /\ page.variant = "applyScenario"
          /\ page.isSimulationMode
          /\ page.forecastData # <<>>
          /\ \E pg \in applyScenario(page) :
               page' = [pg EXCEPT !.applied = page.applied + 1]
       \/ /\ page.variant = "generateScenarioForecast"
          /\ page.isSimulationMode
          /\ \E pg \in generateScenarioForecast(page) :
               page' = [pg EXCEPT !.applied = page.applied + 1]
    /\ Idle

\* resetScenario of page.tsx.
resetScenario ==
    /\ page.variant = "generateScenarioForecast"
    /\ page' = [page EXCEPT !.incomeAdjustment = 0, !.expensesAdjustment = 0,
                            !.savingsAdjustment = 0, !.unexpectedExpense = 0,
                            !.unexpectedExpenseDate = NoDate,
                            !.scenarioForecast = <<>>]
    /\ page' # page
    /\ Idle

\* The simulation switch.  One page applies the scenario when the switch is
\* turned on and no scenario is on display; in the other the switch is a
\* dependency of the effect.
ToggleSimulation ==
    /\ page.loaded
    /\ \/ /\ page.variant = "applyScenario"
          /\ IF ~page.isSimulationMode /\ page.scenarioForecast = <<>>
             THEN /\ page.applied < MaxScenarioRuns
                  /\ \E pg \in applyScenario(page) :
                       page' = [pg EXCEPT !.isSimulationMode = TRUE,
                                          !.applied = IF pg = page THEN page.applied
                                                      ELSE page.applied + 1]
             ELSE page' = [page EXCEPT !.isSimulationMode = ~page.isSimulationMode]
       \/ /\ page.variant = "generateScenarioForecast"
          /\ page' \in PageEffectOutcomes(
                       [page EXCEPT !.isSimulationMode = ~page.isSimulationMode])
    /\ Idle

NextPage ==
    \/ DataLoads
    \/ handlePeriodChange
    \/ setIncomeAdjustment
    \/ setExpensesAdjustment
    \/ setSavingsAdjustment
    \/ setUnexpectedExpense
    \/ ApplyScenario
    \/ resetScenario
    \/ ToggleSimulation

SpecPage == InitPage /\ [][NextPage]_vars

----------------------------------------------------------------------------
(* Specification SpecScenario: the scenario builders as functions of the   *)
(* page state they read: every setting of the scenario controls, with the  *)
(* data loaded and the simulation mode on.                                 *)

\* The dates the one-time expense may be given.
ExpenseDateInputs(now) == {NoDate, Today(now, 5)}

InitScenario ==
    /\ nxt = IdleNext
    /\ occ = IdleOcc
    /\ horizon = IdleHorizon
    /\ call = IdleCall
    /\ ledger = <<>>
    /\ \E variant \in Variants : \E now \in PageNows : \E d \in PageData(now) :
       \E period \in PeriodInputs :
       \E income \in IncomeAdjustments : \E expenses \in ExpenseAdjustments :
       \E savings \in SavingsAdjustments : \E unexpected \in UnexpectedExpenses :
       \E date \in ExpenseDateInputs(now) :
         page \in PageEffectOutcomes(
                     [Loaded(InitialPage(variant, now), d) EXCEPT
                         !.forecastPeriod = period,
                         !.isSimulationMode = TRUE,
                         !.incomeAdjustment = income,
                         !.expensesAdjustment = expenses,
                         !.savingsAdjustment = savings,
                         !.unexpectedExpense = unexpected,
                         !.unexpectedExpenseDate = date])

SpecScenario == InitScenario /\ [][ApplyScenario]_vars

----------------------------------------------------------------------------
(* Specification SpecData: the page while the stored data changes: the     *)
(* balance is updated, a bill is edited, the period is changed and the     *)
(* scenario is applied, with the scenario controls as they start.          *)

NextData ==
    \/ DataLoads
    \/ updateBalance
    \/ updateBill
    \/ handlePeriodChange
    \/ ApplyScenario
    \/ resetScenario
    \/ ToggleSimulation

SpecData == InitPage /\ [][NextData]_vars

\* The baseline collections of the page.
Baseline(pg) == <<pg.incomesData, pg.billsData, pg.expensesData>>

\* C3: applying a scenario leaves the baseline income, bill and expense
\* collections as they were: every record keeps its amount and no record is
\* added.
C3_ScenarioLeavesBaseline ==
    [][page'.applied = page.applied + 1 => Baseline(page') = Baseline(page)]_vars

\* The amounts of the income items of a ledger.
IncomeAmounts(forecast) ==
    {forecast[i].amount : i \in {j \in 1..Len(forecast) : forecast[j].type = "income"}}

\* C20: with an income adjustment of +10% on a single monthly income of 1000,
\* the income occurrences of the scenario ledger have amount 1100 and those
\* of the baseline ledger amount 1000, in the baseline on display and in any
\* baseline generated after the scenario was applied.
C20_ScenarioScalesIncome ==
    /\ [](page.loaded => IncomeAmounts(page.forecastData) \subseteq {1000})
    /\ [][(page'.applied = page.applied + 1 /\ page.incomeAdjustment = 10) =>
            /\ page'.scenarioForecast # <<>>
            /\ IncomeAmounts(page'.scenarioForecast) = {1100}
            /\ IncomeAmounts(page'.forecastData) = {1000}]_vars


\* The ledger items of the savings sources of either builder.
SavingsItemIds == {"scenario-savings"} \cup {SavingsIds[i] : i \in 1..Len(SavingsIds)}

SavingsItems(forecast) ==
    {i \in 1..Len(forecast) : forecast[i].itemId \in SavingsItemIds}

\* The calendar month of a date.
MonthOf(date) ==
    <<CivilFromDays(DayOf(date)).y, CivilFromDays(DayOf(date)).m>>

\* C22: a scenario applied with a monthly savings amount S > 0 yields a
\* scenario ledger with savings items, each an outflow of amount -S that
\* lowers the running balance by S, and no two of them in one calendar month.
C22_MonthlySavingsOutflow ==
    [][(page'.applied = page.applied + 1 /\ page.savingsAdjustment > 0) =>
        /\ SavingsItems(page'.scenarioForecast) # {}
        /\ \A i \in SavingsItems(page'.scenarioForecast) :
             /\ page'.scenarioForecast[i].amount = -page.savingsAdjustment
             /\ i > 1 => page'.scenarioForecast[i].runningBalance =
                           page'.scenarioForecast[i - 1].runningBalance
                               - page.savingsAdjustment
        /\ \A i, j \in SavingsItems(page'.scenarioForecast) :
             i # j => MonthOf(page'.scenarioForecast[i].date)
                        # MonthOf(page'.scenarioForecast[j].date)]_vars

\* The collections the scenario builder of the page passes to the generator.
ScenarioInputs(pg) ==
    IF pg.variant = "applyScenario" THEN applyScenarioInputs(pg)
    ELSE generateScenarioInputs(pg)

\* The one-time expenses a scenario adds to the baseline: the expense records
\* that are not baseline expenses, and the balance adjustments that are
\* outflows.
InjectedExpenses(pg) ==
    {ScenarioInputs(pg).expenses[i] :
        i \in {j \in 1..Len(ScenarioInputs(pg).expenses) :
                 \A k \in 1..Len(pg.expensesData) :
                    pg.expensesData[k].id # ScenarioInputs(pg).expenses[j].id}}
    \cup {ScenarioInputs(pg).balanceAdjustments[i] :
            i \in {j \in 1..Len(ScenarioInputs(pg).balanceAdjustments) :
                     ScenarioInputs(pg).balanceAdjustments[j].amount < 0}}

LedgerBalance(forecast) ==
    {forecast[i].amount :
        i \in {j \in 1..Len(forecast) : forecast[j].itemId = "initial-balance"}}

LedgerHorizon(forecast) ==
    {forecast[i].date :
        i \in {j \in 1..Len(forecast) : forecast[j].itemId = "end-point-marker"}}

\* C21: whenever the page shows a scenario ledger next to the baseline ledger,
\* both start from the same balance and end at the same horizon, and these
\* are the balance and the period of the page.
C21_LedgersShareBalanceAndHorizon ==
    (page.loaded /\ page.forecastData # <<>> /\ page.scenarioForecast # <<>>) =>
        /\ LedgerBalance(page.scenarioForecast) = {page.currentBalance}
        /\ LedgerBalance(page.forecastData) = {page.currentBalance}
        /\ LedgerHorizon(page.scenarioForecast)
             = {AddDays(page.now, forecastDays(page.forecastPeriod))}
        /\ LedgerHorizon(page.forecastData)
             = {AddDays(page.now, forecastDays(page.forecastPeriod))}

\* A scenario on display after the balance was updated to 2500 and the
\* period changed to one month.
C21_Witness ==
    /\ page.loaded
    /\ page.updates > 0
    /\ page.currentBalance = 2500
    /\ page.forecastPeriod = "1m"
    /\ page.applied > 0
    /\ page.forecastData # <<>>
    /\ page.scenarioForecast # <<>>

\* The baseline ledgers the effect generates from the data of a page.
Regenerated(pg) ==
    {q.forecastData : q \in PageEffectOutcomes([pg EXCEPT !.forecastData = <<>>])}

\* C30: a change of the contents of the bill collection (a bill edited in
\* place, the number of records and lastUpdated as they were) ends with the
\* baseline ledger generated from the edited collection.  The effect is all
\* the page runs after the change, so a baseline it leaves stays on display
\* until another event.
C30_EditRegeneratesBaseline ==
    [][page'.billsData # page.billsData =>
        page'.forecastData \in Regenerated(page')]_vars
====
